---- MODULE Spec2Model ----
(***************************************************************************)
(* Model of ceruleanserver/ais.py: the attribution of the sub-polygons of  *)
(* an oil slick to AIS vessel tracks.                                      *)
(*                                                                         *)
(* The file holds the attribution loop twice with the same text: in        *)
(* AISO.find_coincidents (lines 114-130) and in the module-level cell      *)
(* (lines 323-339).  The operators below model the lines of that loop      *)
(* body; the actions run it the way each place runs it.                    *)
(*                                                                         *)
(* Geometry is modelled on a line of integer cells: a report's point is a  *)
(* cell, sub-polygon k of the slick covers one cell, and the distance of a *)
(* point to a polygon is the number of cells between them (0 when the      *)
(* point lies in the polygon).  The floating point values 1/dist and their *)
(* means are modelled as exact fractions.                                  *)
(*                                                                         *)
(* Spec and SpecAttr run the module-level cell of lines 314-349 on one     *)
(* file name (the cell repeats the same steps for each name of fnames and  *)
(* an exception ends it); SpecAISO calls the methods of an AISO object;    *)
(* SpecPar evaluates the loop body for two polygons at once.               *)
(***************************************************************************)
EXTENDS Integers, Sequences, FiniteSets, TLC

\* ---------------------------------------------------------------- bounds
MaxRows == 4
MaxMmsi == 2
MaxCoord == 3
MaxPolys == 2
MaxTs == 2
MaxHours == 2
MaxDeg == 1

Mmsis == 1..MaxMmsi
Coords == 0..MaxCoord

VARIABLES
    csv,              \* rows of the AIS csv file, in file order
    slick_multipoly,  \* the sub-polygons of the slick, in order
    ais,              \* the data frame read from csv, sorted by timestamp
    ais_dist,         \* column ais['dist']
    ais_inv,          \* column ais['inv']
    coincidents,      \* dict mmsi -> [(poly_id, score)], in insertion order
    poly_id,          \* loop variable of the attribution loop
    rec_i,            \* position of the record loop in coincidents
    displayed,        \* what the record loop has displayed so far
    pc,               \* position of the script
    raised,           \* the exception that ended the run or the call, or "none"
    args,             \* the arguments and the geotiff an AISO object is built from
    self,             \* the attributes of the AISO object
    workers           \* concurrent evaluations of the loop body, one per polygon

vars == <<csv, slick_multipoly, ais, ais_dist, ais_inv, coincidents,
          poly_id, rec_i, displayed, pc, raised, args, self, workers>>

\* what the script does not touch
others == <<args, self, workers>>

\* ------------------------------------------------------------ arithmetic
RECURSIVE Fact(_)
Fact(k) == IF k <= 1 THEN 1 ELSE k * Fact(k - 1)

\* every 1/d with 1 <= d <= MaxCoord is the integer InvScale \div d
InvScale == Fact(MaxCoord)

\* float('inf'), the value of 1/0 in a pandas column
Inf == -1

RECURSIVE SumOver(_, _)
SumOver(col, idx) ==
    IF idx = {} THEN 0
    ELSE LET i == CHOOSE j \in idx : TRUE
         IN col[i] + SumOver(col, idx \ {i})

\* A mean is a fraction num/den of InvScale, or infinite.
InfMean == [inf |-> TRUE, num |-> 0, den |-> 1]

\* Series.mean() of the entries of col at the positions idx (idx non-empty)
Mean(col, idx) ==
    IF \E i \in idx : col[i] = Inf THEN InfMean
    ELSE [inf |-> FALSE, num |-> SumOver(col, idx), den |-> Cardinality(idx)]

Less(a, b) ==
    IF a.inf THEN FALSE
    ELSE IF b.inf THEN TRUE
    ELSE a.num * b.den < b.num * a.den

SameMean(a, b) == ~Less(a, b) /\ ~Less(b, a)

Abs(z) == IF z < 0 THEN -z ELSE z

SetMax(S) == CHOOSE m \in S : \A k \in S : k <= m
SetMin(S) == CHOOSE m \in S : \A k \in S : m <= k

\* --------------------------------------------------- the attribution loop
\* shapely: point.distance(poly_geo)
distance(point, poly_geo) == Abs(point - poly_geo)

\* ais['geometry'].distance(poly_geo)
DistColumn(df, poly_geo) ==
    [i \in 1..Len(df) |-> distance(df[i].geometry, poly_geo)]

\* 1 / ais['dist']
InvColumn(dist) ==
    [i \in 1..Len(dist) |-> IF dist[i] = 0 THEN Inf ELSE InvScale \div dist[i]]

\* (ais['dist'] == 0): the boolean mask of the direct hits
direct_hits(dist) == [i \in 1..Len(dist) |-> dist[i] = 0]

\* the positions of the rows of vessel m selected by mask
RowsOf(df, mask, m) == {i \in 1..Len(df) : mask[i] /\ df[i].mmsi = m}

\* ais['mmsi'].unique()
unique(df) == {df[i].mmsi : i \in 1..Len(df)}

\* ais[direct_hits].groupby(['mmsi']).count()['dist']
hit_counts(df, hits) ==
    [m \in {df[i].mmsi : i \in {j \in 1..Len(df) : hits[j]}} |->
        Cardinality(RowsOf(df, hits, m))]

most_likely_all(df, hits) == unique(df)

most_likely_mmsis(df, hits) ==
    IF ~(\E i \in 1..Len(df) : hits[i]) THEN unique(df)
    ELSE LET hc == hit_counts(df, hits)
             top == SetMax({hc[m] : m \in DOMAIN hc})
         IN {m \in DOMAIN hc : hc[m] = top}

\* ais[~direct_hits].groupby(['mmsi'])['inv'].mean()
proximity(df, inv, hits) ==
    LET miss == [i \in 1..Len(df) |-> ~hits[i]]
    IN [m \in {df[i].mmsi : i \in {j \in 1..Len(df) : miss[j]}} |->
           Mean(inv, RowsOf(df, miss, m))]

\* proximity[proximity.index.isin(most_likely_mmsis)]
candidates(prox, likely) == DOMAIN prox \cap likely

idxmin(prox, likely) ==
    SetMin({m \in candidates(prox, likely) :
               \A k \in candidates(prox, likely) : ~Less(prox[k], prox[m])})

\* .idxmax(): the first label of the sorted group index with the largest
\* value
closest_mmsi(prox, likely) ==
    SetMin({m \in candidates(prox, likely) :
               \A k \in candidates(prox, likely) : ~Less(prox[m], prox[k])})

\* .idxmax() of an empty series raises ValueError ("attempt to get argmax of
\* an empty sequence")
closest_raises(prox, likely) == candidates(prox, likely) = {}

score_misses(df, inv, likely, closest) ==
    LET miss == [i \in 1..Len(df) |-> inv[i] # Inf]
    IN IF RowsOf(df, miss, closest) = {} THEN InfMean
       ELSE Mean(inv, RowsOf(df, miss, closest))

\* ais[ais['mmsi'].isin(most_likely_mmsis)].groupby(['mmsi'])['inv'].mean()[closest_mmsi]
score(df, inv, likely, closest) ==
    LET sel == [i \in 1..Len(df) |-> df[i].mmsi \in likely]
    IN Mean(inv, RowsOf(df, sel, closest))

\* coincidents.setdefault(key, []).append(entry)
setdefault_append(dict, key, entry) ==
    IF \E j \in 1..Len(dict) : dict[j].mmsi = key
    THEN [j \in 1..Len(dict) |->
            IF dict[j].mmsi = key
            THEN [dict[j] EXCEPT !.polys = Append(@, entry)]
            ELSE dict[j]]
    ELSE Append(dict, [mmsi |-> key, polys |-> <<entry>>])

\* ------------------------------------------------------------- read_csv
\* the orders of the row positions S in which timestamps never decrease
RECURSIVE Ascending(_, _)
Ascending(rows, S) ==
    IF S = {} THEN {<<>>}
    ELSE UNION {{<<i>> \o t : t \in Ascending(rows, S \ {i})} :
                 i \in {j \in S : \A k \in S : rows[j].timestamp <= rows[k].timestamp}}

\* .sort_values('timestamp'): the reorderings of rows with ascending
\* timestamps (the default sort is not stable: rows of equal timestamp may
\* come out in any order)
sort_values(rows) ==
    {[i \in 1..Len(rows) |-> rows[p[i]]] : p \in Ascending(rows, 1..Len(rows))}

\* ---------------------------------------------------------- record loop
\* [slick_multipoly[poly_id[0]] for poly_id in coincidents[mmsi]]
mmsi_multi(slick, polys) ==
    [j \in 1..Len(polys) |-> slick[polys[j][1] + 1]]

RECURSIVE Track(_, _)
Track(df, m) ==
    IF df = <<>> THEN <<>>
    ELSE IF Head(df).mmsi = m
         THEN <<Head(df).geometry>> \o Track(Tail(df), m)
         ELSE Track(Tail(df), m)

\* [p for p in ais[ais['mmsi']==mmsi]['geometry']]
mmsi_string(df, m) == Track(df, m)

\* shapely: LineString(points) raises ValueError ("LineStrings must have at
\* least 2 coordinate tuples") when it is given a single point
LineString_raises(points) == Len(points) = 1

\* ---------------------------------------------------------------- inputs
\* Sub-polygon k of the slick covers cell 2k.
Slick(n) == [k \in 1..n |-> 2 * (k - 1)]

\* The order in which rows of one file are listed does not change what
\* sort_values can return, so one file order stands for each multiset of
\* rows: latest timestamp first.
RowRank(r) == ((MaxTs - r.timestamp) * (MaxMmsi + 1) + r.mmsi) * (MaxCoord + 1)
              + r.geometry

Listed(rows) == \A i \in 1..Len(rows) - 1 : RowRank(rows[i]) <= RowRank(rows[i + 1])

Row == [mmsi : Mmsis, timestamp : 1..MaxTs, geometry : Coords]

Start(rows, n) ==
    /\ csv = rows
    /\ slick_multipoly = Slick(n)
    /\ ais = <<>>
    /\ ais_dist = <<>>
    /\ ais_inv = <<>>
    /\ coincidents = <<>>
    /\ poly_id = 0
    /\ rec_i = 1
    /\ displayed = <<>>
    /\ pc = "read"
    /\ raised = "none"
    /\ args = <<>>
    /\ self = <<>>
    /\ workers = <<>>

Init ==
    \E k \in 0..MaxRows, n \in 1..MaxPolys :
        \E rows \in [1..k -> Row] :
            /\ Listed(rows)
            /\ Start(rows, n)

\* --------------------------------------------------------------- actions
\* lines 316-323: read the csv, sort it, read the slick, coincidents = {}
ScriptRead ==
    /\ pc = "read" /\ raised = "none"
    /\ ais' \in sort_values(csv)
    /\ coincidents' = <<>>
    /\ poly_id' = 0
    /\ pc' = IF Len(slick_multipoly) = 0 THEN "record" ELSE "attribute"
    /\ UNCHANGED <<csv, slick_multipoly, ais_dist, ais_inv, rec_i, displayed, raised>>
    /\ UNCHANGED others

\* lines 324-339: one iteration of the attribution loop
ScriptAttribute ==
    /\ pc = "attribute" /\ raised = "none"
    /\ LET poly_geo == slick_multipoly[poly_id + 1]
           dist == DistColumn(ais, poly_geo)
           inv == InvColumn(dist)
           hits == direct_hits(dist)
           likely == most_likely_mmsis(ais, hits)
           prox == proximity(ais, inv, hits)
       IN /\ ais_dist' = dist
          /\ ais_inv' = inv
          /\ IF closest_raises(prox, likely)
             THEN /\ raised' = "ValueError"
                  /\ UNCHANGED <<coincidents, poly_id, pc>>
             ELSE LET closest == closest_mmsi(prox, likely)
                      s == score(ais, inv, likely, closest)
                  IN /\ coincidents' = setdefault_append(coincidents, closest, <<poly_id, s>>)
                     /\ poly_id' = poly_id + 1
                     /\ pc' = IF poly_id + 1 < Len(slick_multipoly)
                              THEN "attribute" ELSE "record"
                     /\ raised' = raised
    /\ UNCHANGED <<csv, slick_multipoly, ais, rec_i, displayed>>
    /\ UNCHANGED others

\* lines 341-349: one iteration of the record loop
ScriptRecord ==
    /\ pc = "record" /\ raised = "none"
    /\ IF rec_i > Len(coincidents)
       THEN /\ pc' = "done"
            /\ UNCHANGED <<rec_i, displayed, raised>>
       ELSE LET mmsi == coincidents[rec_i].mmsi
                multi == mmsi_multi(slick_multipoly, coincidents[rec_i].polys)
                string == mmsi_string(ais, mmsi)
            IN IF LineString_raises(string)
               THEN /\ raised' = "ValueError"
                    /\ UNCHANGED <<rec_i, displayed, pc>>
               ELSE /\ displayed' = Append(displayed,
                            [mmsi |-> mmsi, mmsi_multi |-> multi,
                             mmsi_string |-> string,
                             coincidents |-> coincidents[rec_i].polys])
                    /\ rec_i' = rec_i + 1
                    /\ UNCHANGED <<pc, raised>>
    /\ UNCHANGED <<csv, slick_multipoly, ais, ais_dist, ais_inv, coincidents, poly_id>>
    /\ UNCHANGED others

Next == ScriptRead \/ ScriptAttribute \/ ScriptRecord

Spec == Init /\ [][Next]_vars

\* The attribution loop reads no timestamp.  SpecAttr runs the same script
\* on files whose reports are listed in time order, one report per instant.
Track_id == [mmsi : Mmsis, geometry : Coords]

ListedAttr(f) ==
    \A i \in 1..Len(f) - 1 :
        f[i].mmsi * (MaxCoord + 1) + f[i].geometry
            <= f[i + 1].mmsi * (MaxCoord + 1) + f[i + 1].geometry

InitAttr ==
    \E k \in 0..MaxRows, n \in 1..MaxPolys :
        \E f \in [1..k -> Track_id] :
            /\ ListedAttr(f)
            /\ Start([i \in 1..k |-> [mmsi |-> f[i].mmsi, timestamp |-> i,
                                      geometry |-> f[i].geometry]], n)

SpecAttr == InitAttr /\ [][Next]_vars

\* ------------------------------------------------- vocabulary of the claims
\* distance of report i of the data frame to sub-polygon p
Gap(i, p) ==
    IF ais[i].geometry >= slick_multipoly[p + 1]
    THEN ais[i].geometry - slick_multipoly[p + 1]
    ELSE slick_multipoly[p + 1] - ais[i].geometry

Reports(v) == {i \in 1..Len(ais) : ais[i].mmsi = v}
HitsOf(v, p) == {i \in Reports(v) : Gap(i, p) = 0}
MissesOf(v, p) == {i \in Reports(v) : Gap(i, p) # 0}
Present == {ais[i].mmsi : i \in 1..Len(ais)}
NoHitOn(p) == \A i \in 1..Len(ais) : Gap(i, p) # 0

\* InvScale/distance of the reports that are no direct hit on p
InverseGap(p) ==
    [i \in 1..Len(ais) |-> IF Gap(i, p) = 0 THEN 0 ELSE InvScale \div Gap(i, p)]

\* mean inverse distance to p over the reports S <= that over the reports T
MeanInvLeq(S, T, p) ==
    SumOver(InverseGap(p), S) * Cardinality(T)
        <= SumOver(InverseGap(p), T) * Cardinality(S)

\* the recorded attributions: j-th vessel of coincidents, its k-th entry
Recorded == {jk \in (1..Len(coincidents)) \X (1..MaxPolys + 1) :
                jk[2] <= Len(coincidents[jk[1]].polys)}
WinnerAt(jk) == coincidents[jk[1]].mmsi
PolyAt(jk) == coincidents[jk[1]].polys[jk[2]][1]
ScoreAt(jk) == coincidents[jk[1]].polys[jk[2]][2]

\* C4 (no-hit fallback): a polygon that no report hits is recorded for a
\* vessel that has a report and whose mean inverse distance over its
\* reports is the largest among all vessels present in the report set.
C4_NoHitFallback ==
    \A jk \in Recorded :
        NoHitOn(PolyAt(jk)) =>
            /\ Reports(WinnerAt(jk)) # {}
            /\ \A u \in Present :
                   MeanInvLeq(Reports(u), Reports(WinnerAt(jk)), PolyAt(jk))

C4_Witness ==
    \E jk \in Recorded :
        /\ NoHitOn(PolyAt(jk))
        /\ \E u \in Present :
               /\ u # WinnerAt(jk)
               /\ ~MeanInvLeq(Reports(WinnerAt(jk)), Reports(u), PolyAt(jk))

\* C8 (recorded score): the score recorded with a polygon is infinite
\* exactly when the winner has a direct hit on the polygon, and otherwise
\* it is a positive number, the mean inverse distance of the winner's
\* reports.
C8_RecordedScore ==
    \A jk \in Recorded :
        LET v == WinnerAt(jk)
            p == PolyAt(jk)
            s == ScoreAt(jk)
        IN /\ s.inf <=> HitsOf(v, p) # {}
           /\ ~s.inf =>
                 /\ s.num > 0 /\ s.den > 0
                 /\ s.num * Cardinality(MissesOf(v, p))
                        = SumOver(InverseGap(p), MissesOf(v, p)) * s.den

C8_Witness ==
    /\ \E jk \in Recorded :
           /\ ScoreAt(jk).inf
           /\ HitsOf(WinnerAt(jk), PolyAt(jk)) # {}
           /\ MissesOf(WinnerAt(jk), PolyAt(jk)) # {}
    /\ \E jk \in Recorded : ~ScoreAt(jk).inf /\ NoHitOn(PolyAt(jk))

\* C9 (candidate restriction and tie-break): the recorded winner is a
\* vessel present in the report set; when the polygon has direct hits the
\* winner has the largest number of direct hits on it; and among the
\* vessels with that largest number, none has a larger mean inverse
\* distance over its non-zero-distance reports than the winner.
Tied(v, u, p) ==
    Cardinality(HitsOf(u, p)) = Cardinality(HitsOf(v, p))

NumPolys == Len(slick_multipoly)

\* the attribution loop has raised while evaluating polygon p
FailedAt(p) == pc = "attribute" /\ raised # "none" /\ poly_id = p

\* polygon p has been evaluated: recorded, or raised
Evaluated(p) == p < poly_id \/ FailedAt(p)

\* the attribution loop has ended, normally or by an exception
LoopEnded == pc \in {"record", "done"} \/ (pc = "attribute" /\ raised # "none")

\* the record loop has ended, normally or by an exception
RecordEnded == pc = "done" \/ (pc = "record" /\ raised # "none")

RecordedFor(p) == {jk \in Recorded : PolyAt(jk) = p}

\* C1 (total, disjoint assignment): once the attribution loop has run over
\* the n sub-polygons of a slick with a non-empty report set, every poly_id
\* of 0..n-1 is recorded exactly once, and no other poly_id is recorded.
C1_TotalDisjoint ==
    (LoopEnded /\ Len(ais) > 0) =>
        /\ \A p \in 0..NumPolys - 1 : Cardinality(RecordedFor(p)) = 1
        /\ \A jk \in Recorded : PolyAt(jk) \in 0..NumPolys - 1

\* C2 (direct-hit dominance): when a vessel has strictly more direct hits
\* on a polygon than every other vessel, the evaluation of that polygon
\* records that vessel as the winner.
Dominates(a, p) ==
    /\ HitsOf(a, p) # {}
    /\ \A u \in Present \ {a} :
           Cardinality(HitsOf(u, p)) < Cardinality(HitsOf(a, p))

C2_DirectHitDominance ==
    \A p \in 0..NumPolys - 1 : \A a \in Present :
        (Evaluated(p) /\ Dominates(a, p)) =>
            \E jk \in RecordedFor(p) : WinnerAt(jk) = a

\* C3 (degenerate winner): when a vessel with the most direct hits on a
\* polygon has direct hits only, the evaluation of the polygon does not
\* fail: a winner is recorded, and it is no vessel that has non-zero
\* distances only.
Degenerate(a, p) ==
    /\ Reports(a) # {} /\ MissesOf(a, p) = {}
    /\ \A u \in Present :
           Cardinality(HitsOf(u, p)) <= Cardinality(HitsOf(a, p))

C3_DegenerateWinner ==
    \A p \in 0..NumPolys - 1 : \A a \in Present :
        (Evaluated(p) /\ Degenerate(a, p)) =>
            \E jk \in RecordedFor(p) : HitsOf(WinnerAt(jk), p) # {}

\* C5 (per-polygon failure isolation): when the evaluation of one polygon
\* fails, every other polygon of the run that has a vessel to attribute it
\* to is still attributed and present in the result.
CanAttribute(q) ==
    \E v \in Present :
        /\ MissesOf(v, q) # {}
        /\ \A u \in Present :
               Cardinality(HitsOf(u, q)) <= Cardinality(HitsOf(v, q))

C5_FailureIsolation ==
    \A p \in 0..NumPolys - 1 :
        FailedAt(p) =>
            \A q \in (0..NumPolys - 1) \ {p} :
                CanAttribute(q) => RecordedFor(q) # {}

\* C7 (aggregation correctness): once the record loop has ended, every
\* vessel of the result has been given a polygon geometry made of exactly
\* the sub-polygons attributed to it and a line geometry that visits
\* exactly its reports in ascending timestamp order.
PolysOf(j) == {coincidents[j].polys[k][1] : k \in 1..Len(coincidents[j].polys)}

ExactPolys(multi, j) ==
    /\ Len(multi) = Cardinality(PolysOf(j))
    /\ {multi[k] : k \in 1..Len(multi)} = {slick_multipoly[p + 1] : p \in PolysOf(j)}

VisitsInTimeOrder(line, v) ==
    \E o \in Ascending(ais, Reports(v)) :
        line = [i \in 1..Len(o) |-> ais[o[i]].geometry]

C7_Aggregation ==
    RecordEnded =>
        \A j \in 1..Len(coincidents) :
            \E d \in 1..Len(displayed) :
                /\ displayed[d].mmsi = coincidents[j].mmsi
                /\ ExactPolys(displayed[d].mmsi_multi, j)
                /\ VisitsInTimeOrder(displayed[d].mmsi_string, coincidents[j].mmsi)

\* ------------------------------------------------------------ class AISO
None == [set |-> FALSE, val |-> 0]
Some(x) == [set |-> TRUE, val |-> x]

Args ==
    [acq_time : 0..MaxHours,             \* the time stamp held in grd_id[17:32]
     hours_before_image : 0..MaxHours,
     hours_after_image : 0..MaxHours,
     GCPXs : (SUBSET (0..MaxDeg)) \ {{}},  \* the ground control points of grd_path
     GCPYs : (SUBSET (0..MaxDeg)) \ {{}},
     buffer : 0..MaxDeg]

\* lines 24-28: the attributes __init__ calculates
Calculated(a) ==
    [acq_time |-> a.acq_time,
     ts_max |-> Some(a.acq_time + a.hours_after_image),
     ts_min |-> Some(a.acq_time - a.hours_before_image)]

\* AISO.__init__: the attributes once the placeholders of lines 30-39 are
\* assigned; ts_max and ts_min are assigned None after their calculation
AISO_init(a) ==
    [acq_time |-> Calculated(a).acq_time,
     coincidents |-> <<>>,
     big_query_str |-> None,
     ais_df |-> None,
     lat_max |-> None,
     lat_min |-> None,
     lon_max |-> None,
     lon_min |-> None,
     ts_max |-> None,
     ts_min |-> None]

InitAISO ==
    \E a \in Args :
        /\ args = a
        /\ self = AISO_init(a)
        /\ csv = <<>>
        /\ slick_multipoly = <<>>
        /\ ais = <<>>
        /\ ais_dist = <<>>
        /\ ais_inv = <<>>
        /\ coincidents = <<>>
        /\ poly_id = 0
        /\ rec_i = 1
        /\ displayed = <<>>
        /\ pc = "aiso"
        /\ raised = "none"
        /\ workers = <<>>

aisoOthers == <<csv, slick_multipoly, ais, ais_dist, ais_inv, coincidents,
                poly_id, rec_i, displayed, pc, args, workers>>

\* lines 51-54: the bounding box of the ground control points, widened
BoundingBox(o, a) ==
    [o EXCEPT !.lat_max = Some(SetMax(a.GCPYs) + a.buffer),
              !.lat_min = Some(SetMin(a.GCPYs) - a.buffer),
              !.lon_max = Some(SetMax(a.GCPXs) + a.buffer),
              !.lon_min = Some(SetMin(a.GCPXs) - a.buffer)]

\* lines 56-99: the query text, by the values it is scoped to
QueryText(o) ==
    [lat_min |-> o.lat_min.val, lat_max |-> o.lat_max.val,
     lon_min |-> o.lon_min.val, lon_max |-> o.lon_max.val,
     ts_min |-> o.ts_min.val, ts_max |-> o.ts_max.val]

\* AISO.get_big_query_str: self.ts_min.strftime raises AttributeError when
\* ts_min is None, after the bounding box has been assigned
get_big_query_str ==
    /\ pc = "aiso"
    /\ IF self.big_query_str.set
       THEN /\ raised' = "none"
            /\ self' = self
       ELSE LET boxed == BoundingBox(self, args)
            IN IF ~boxed.ts_min.set \/ ~boxed.ts_max.set
               THEN /\ self' = boxed
                    /\ raised' = "AttributeError"
               ELSE /\ self' = [boxed EXCEPT !.big_query_str = Some(QueryText(boxed))]
                    /\ raised' = "none"
    /\ UNCHANGED aisoOthers

\* AISO.run_big_query: the name XXX_BIG_QUERY_API_CALL is defined nowhere;
\* looking it up raises NameError before its argument is evaluated
run_big_query ==
    /\ pc = "aiso"
    /\ raised' = "NameError"
    /\ UNCHANGED self
    /\ UNCHANGED aisoOthers

\* the exception find_coincidents ends with: "not self.ais_df" is True for
\* None, and then run_big_query raises; for a data frame it raises ValueError
find_coincidents_raises(o) == IF ~o.ais_df.set THEN "NameError" ELSE "ValueError"

\* AISO.find_coincidents: it raises before line 114
find_coincidents ==
    /\ pc = "aiso"
    /\ raised' = find_coincidents_raises(self)
    /\ UNCHANGED self
    /\ UNCHANGED aisoOthers

\* AISO.record_coincidents: with self.coincidents empty it calls
\* find_coincidents; otherwise it aggregates and displays each vessel
record_coincidents ==
    /\ pc = "aiso"
    /\ IF self.coincidents = <<>>
       THEN /\ raised' = find_coincidents_raises(self)
            /\ UNCHANGED displayed
       ELSE /\ raised' = "none"
            /\ displayed' = [j \in 1..Len(self.coincidents) |->
                    [mmsi |-> self.coincidents[j].mmsi,
                     mmsi_multi |-> mmsi_multi(slick_multipoly, self.coincidents[j].polys),
                     mmsi_string |-> mmsi_string(self.ais_df.val, self.coincidents[j].mmsi),
                     coincidents |-> self.coincidents[j].polys]]
    /\ UNCHANGED <<csv, slick_multipoly, ais, ais_dist, ais_inv, coincidents,
                   poly_id, rec_i, pc, args, workers, self>>

NextAISO == get_big_query_str \/ run_big_query \/ find_coincidents \/ record_coincidents

SpecAISO == InitAISO /\ [][NextAISO]_vars

\* C10 (query time window): after construction, ts_min is the acquisition
\* time minus hours_before_image and ts_max is the acquisition time plus
\* hours_after_image; and a call of get_big_query_str leaves a query scoped
\* to that window.
C10_QueryWindow ==
    pc = "aiso" =>
        /\ self.ts_min = Some(args.acq_time - args.hours_before_image)
        /\ self.ts_max = Some(args.acq_time + args.hours_after_image)
        /\ self.lat_max.set =>
              /\ self.big_query_str.set
              /\ self.big_query_str.val.ts_min = args.acq_time - args.hours_before_image
              /\ self.big_query_str.val.ts_max = args.acq_time + args.hours_after_image

\* ------------------------------------------- concurrent polygon evaluation
\* The loop body of lines 325-339 evaluated for the polygons of one slick by
\* concurrent evaluators, one per polygon, over the one data frame: the
\* columns ais['dist'] and ais['inv'] belong to the frame, the names
\* direct_hits, most_likely_mmsis, closest_mmsi and score to the evaluator.
Idle == [pc |-> "dist", most_likely_mmsis |-> {}, closest_mmsi |-> 0]

InitPar ==
    \E k \in 1..MaxRows :
        \E f \in [1..k -> Track_id] :
            /\ ListedAttr(f)
            /\ ais = [i \in 1..k |-> [mmsi |-> f[i].mmsi, timestamp |-> i,
                                      geometry |-> f[i].geometry]]
            /\ csv = ais
            /\ slick_multipoly = Slick(MaxPolys)
            /\ ais_dist = <<>>
            /\ ais_inv = <<>>
            /\ coincidents = <<>>
            /\ poly_id = 0
            /\ rec_i = 1
            /\ displayed = <<>>
            /\ pc = "par"
            /\ raised = "none"
            /\ args = <<>>
            /\ self = <<>>
            /\ workers = [p \in 1..MaxPolys |-> Idle]

parOthers == <<csv, slick_multipoly, ais, poly_id, rec_i, displayed, pc, raised,
               args, self>>

\* line 325: ais['dist'] = ais['geometry'].distance(poly_geo)
ParDist(w) ==
    /\ workers[w].pc = "dist"
    /\ ais_dist' = DistColumn(ais, slick_multipoly[w])
    /\ workers' = [workers EXCEPT ![w].pc = "inv"]
    /\ UNCHANGED <<ais_inv, coincidents>>
    /\ UNCHANGED parOthers

\* line 326: ais['inv'] = 1 / ais['dist']
ParInv(w) ==
    /\ workers[w].pc = "inv"
    /\ ais_inv' = InvColumn(ais_dist)
    /\ workers' = [workers EXCEPT ![w].pc = "select"]
    /\ UNCHANGED <<ais_dist, coincidents>>
    /\ UNCHANGED parOthers

\* lines 327-335: direct_hits, most_likely_mmsis, proximity, closest_mmsi
ParSelect(w) ==
    /\ workers[w].pc = "select"
    /\ LET hits == direct_hits(ais_dist)
           likely == most_likely_mmsis(ais, hits)
           prox == proximity(ais, ais_inv, hits)
       IN IF closest_raises(prox, likely)
          THEN workers' = [workers EXCEPT ![w].pc = "raised"]
          ELSE workers' = [workers EXCEPT ![w] =
                   [pc |-> "score", most_likely_mmsis |-> likely,
                    closest_mmsi |-> closest_mmsi(prox, likely)]]
    /\ UNCHANGED <<ais_dist, ais_inv, coincidents>>
    /\ UNCHANGED parOthers

\* lines 337-339: score, and the entry of the polygon
ParScore(w) ==
    /\ workers[w].pc = "score"
    /\ coincidents' = setdefault_append(coincidents, workers[w].closest_mmsi,
            <<w - 1, score(ais, ais_inv, workers[w].most_likely_mmsis,
                           workers[w].closest_mmsi)>>)
    /\ workers' = [workers EXCEPT ![w].pc = "done"]
    /\ UNCHANGED <<ais_dist, ais_inv>>
    /\ UNCHANGED parOthers

NextPar ==
    \E w \in 1..MaxPolys : ParDist(w) \/ ParInv(w) \/ ParSelect(w) \/ ParScore(w)

SpecPar == InitPar /\ [][NextPar]_vars

\* what lines 325-337 give for polygon p when nothing else runs
AloneRaises(p) ==
    LET dist == DistColumn(ais, slick_multipoly[p + 1])
    IN closest_raises(proximity(ais, InvColumn(dist), direct_hits(dist)),
                      most_likely_mmsis(ais, direct_hits(dist)))

AloneWinner(p) ==
    LET dist == DistColumn(ais, slick_multipoly[p + 1])
    IN closest_mmsi(proximity(ais, InvColumn(dist), direct_hits(dist)),
                    most_likely_mmsis(ais, direct_hits(dist)))

AloneScore(p) ==
    LET dist == DistColumn(ais, slick_multipoly[p + 1])
    IN score(ais, InvColumn(dist), most_likely_mmsis(ais, direct_hits(dist)),
             AloneWinner(p))

\* C6 (order and interleaving independence): however the steps of the
\* evaluations of two polygons interleave, the entry an evaluation records
\* for a polygon that the sequential run attributes names the vessel and
\* the score that the sequential run records for that polygon.
C6_Interleaving ==
    pc = "par" =>
        \A w \in 1..MaxPolys :
            (workers[w].pc = "done" /\ ~AloneRaises(w - 1)) =>
                \E jk \in RecordedFor(w - 1) :
                    /\ WinnerAt(jk) = AloneWinner(w - 1)
                    /\ SameMean(ScoreAt(jk), AloneScore(w - 1))

====
